---------------------------- MODULE Spec2Model ----------------------------
(***************************************************************************)
(* Model of the algorithmic cores of bigquery-dashboard:                   *)
(*   - DataCatalogLineageRepository (src/infra/lineage):                    *)
(*       get_leaf_tables, find_leaf_tables_from_roots, get_table_lineage,   *)
(*       _parse_bigquery_fqn                                                *)
(*   - table_access_counter (src/bq_table_reference/application):           *)
(*       merge_results, apply_filters, TableAccessCounter.count_access      *)
(*   - AuditLogAdapter (src/bq_table_reference/infrastructure):             *)
(*       fetch_table_access, _list_entries_with_retry                       *)
(* Each component has its own variables and its own specification.         *)
(*                                                                         *)
(* Strings are sequences of tokens.  "bigquery:", "sharded:" and "." are   *)
(* tokens of their own; every other token is a run of characters holding   *)
(* neither ":" nor ".".                                                    *)
(***************************************************************************)
EXTENDS Integers, Sequences, FiniteSets, TLC

(***************************************************************************)
(* Bounds of the model.                                                    *)
(***************************************************************************)
\* longest table_ids / root_tables argument
MaxRoots == 2
\* links the Lineage API serves, in total, during one repository call
MaxLinks == 3
\* most records the two origins hand to merge_results, both lists together
MaxLen == 4
\* largest access_count an origin reports
MaxCount == 2

\* Optional values: None is the empty tuple, Some(x) the one-element tuple.
None == <<>>
Some(x) == <<x>>

Range(s) == {s[i] : i \in 1..Len(s)}

\* all sequences over S of length at most n
SeqUpTo(S, n) == UNION {[1..k -> S] : k \in 0..n}

(***************************************************************************)
(* Strings.                                                                *)
(***************************************************************************)
Dot == "."
BigqueryPrefix == <<"bigquery:">>
ShardedPrefix == <<"sharded:">>

\* str.startswith
StartsWith(s, prefix) ==
    /\ Len(s) >= Len(prefix)
    /\ SubSeq(s, 1, Len(prefix)) = prefix

\* s[n:]
DropPrefix(s, n) == SubSeq(s, n + 1, Len(s))

\* str.split("."): the segments between the dots, empty segments included
RECURSIVE SplitFrom(_, _, _)
SplitFrom(s, i, cur) ==
    IF i > Len(s) THEN <<cur>>
    ELSE IF s[i] = Dot THEN <<cur>> \o SplitFrom(s, i + 1, <<>>)
    ELSE SplitFrom(s, i + 1, Append(cur, s[i]))

Split(s) == SplitFrom(s, 1, <<>>)

(***************************************************************************)
(* TableId and the Lineage API's fully qualified names.                    *)
(***************************************************************************)
TableId(p, d, t) == [project_id |-> p, dataset_id |-> d, table_id |-> t]

build_bigquery_fqn(table_id) ==
    BigqueryPrefix \o table_id.project_id \o <<Dot>> \o table_id.dataset_id
        \o <<Dot>> \o table_id.table_id

parse_bigquery_fqn(fqn) ==
    IF ~StartsWith(fqn, BigqueryPrefix) THEN None
    ELSE LET path1 == DropPrefix(fqn, Len(BigqueryPrefix))
             table_path == IF StartsWith(path1, ShardedPrefix)
                           THEN DropPrefix(path1, Len(ShardedPrefix))
                           ELSE path1
             parts == Split(table_path)
         IN  IF Len(parts) # 3 THEN None
             ELSE Some(TableId(parts[1], parts[2], parts[3]))

(***************************************************************************)
(* The tables, projects and links of the model.                            *)
(***************************************************************************)
P1 == <<"p1">>
P2 == <<"p2">>
Projects == {P1, P2}
TA == TableId(P1, <<"d">>, <<"a">>)
TB == TableId(P1, <<"d">>, <<"b">>)
TC == TableId(P2, <<"d">>, <<"c">>)
Tables == {TA, TB, TC}

\* a link end that is no BigQuery table
OtherFqn == <<"spanner:", "p1", Dot, "i", Dot, "db">>

\* the tables a caller passes as table_ids / root_tables
ArgTables == {TA, TC}

\* link.target of the links a downstream search may be served
TargetFqns == {build_bigquery_fqn(t) : t \in Tables} \cup {OtherFqn}

\* link.source of the links an upstream search may be served
SourceFqns == {build_bigquery_fqn(TC), OtherFqn}

\* the allowed_project_ids arguments
AllowLists == {None, Some(<<>>), Some(<<P1>>), Some(<<P1, P2>>)}

(***************************************************************************)
(* DataCatalogLineageRepository: helpers of the two traversals.            *)
(***************************************************************************)
LeafTable(table_id, upstream_count) ==
    [table_id |-> table_id, upstream_count |-> upstream_count]

\* the loop of _search_downstream_tables / _search_upstream_tables over the
\* links of one search_links response: parse each FQN, keep the tables
RECURSIVE search_tables(_)
search_tables(links) ==
    IF links = <<>> THEN <<>>
    ELSE LET table_id == parse_bigquery_fqn(Head(links))
         IN  (IF table_id # None THEN table_id ELSE <<>>)
                 \o search_tables(Tail(links))

\* mutant: the early return is missing
NoTables_Never(tables) == FALSE

\* "if not table_ids" / "if not root_tables"
NoTables(tables) == tables = <<>>

\* mutant: "is not None" in place of the truth test, [] becomes the empty set
AllowedProjects_EmptyIsSet(ids) ==
    IF ids = None THEN None ELSE Some(Range(ids[1]))

\* mutant: the allow-list is dropped
AllowedProjects_Ignored(ids) == None

\* allowed_projects = set(allowed_project_ids) if allowed_project_ids else None
AllowedProjects(ids) ==
    IF ids = None \/ ids[1] = <<>>
    THEN None
    ELSE Some(Range(ids[1]))

\* mutant: the allow-list is not applied
FilterAllowed_Off(downstream, allowed) == downstream

\* mutant: the membership test is inverted
FilterAllowed_Inverted(downstream, allowed) ==
    IF allowed = None THEN downstream
    ELSE SelectSeq(downstream, LAMBDA dt : dt.project_id \notin allowed[1])

\* [dt for dt in downstream if dt.project_id in allowed_projects]
FilterAllowed(downstream, allowed) ==
    IF allowed = None THEN downstream
    ELSE SelectSeq(downstream, LAMBDA dt : dt.project_id \in allowed[1])

\* mutant: the visited check is missing
AlreadyVisited_Never(seen, fqn) == FALSE

\* if fqn in visited: continue
AlreadyVisited(seen, fqn) == fqn \in seen

\* mutant: the table is not marked
MarkVisited_Skip(seen, fqn) == seen

\* visited.add(fqn)
MarkVisited(seen, fqn) == seen \cup {fqn}

\* mutant: only the first downstream table is followed
Enqueue_FirstOnly(q, downstream, seen) ==
    q \o SelectSeq(SubSeq(downstream, 1, 1),
                   LAMBDA dt : build_bigquery_fqn(dt) \notin seen)

\* mutant: appendleft, the new tables go to the front of the queue
Enqueue_Front(q, downstream, seen) ==
    SelectSeq(downstream, LAMBDA dt : build_bigquery_fqn(dt) \notin seen) \o q

\* for dt in downstream: if fqn(dt) not in visited: queue.append(dt)
Enqueue(q, downstream, seen) ==
    q \o SelectSeq(downstream, LAMBDA dt : build_bigquery_fqn(dt) \notin seen)

(***************************************************************************)
(* table_access_counter.merge_results                                      *)
(***************************************************************************)
INFORMATION_SCHEMA == "information_schema"
AUDIT_LOG == "audit_log"

TableAccessCount(p, d, t, n, src) ==
    [project_id |-> p, dataset_id |-> d, table_id |-> t,
     access_count |-> n, source |-> src]

\* TableAccessCount.full_path
full_path(r) ==
    r.project_id \o <<Dot>> \o r.dataset_id \o <<Dot>> \o r.table_id

\* A dict is the sequence of its items in insertion order, one per key.
DictHas(d, key) == \E i \in 1..Len(d) : d[i].key = key
DictGet(d, key) == d[CHOOSE i \in 1..Len(d) : d[i].key = key].value

\* d[key] = value: a new key goes last, a known key keeps its place
DictSet(d, key, value) ==
    IF DictHas(d, key)
    THEN [i \in 1..Len(d) |->
             IF d[i].key = key THEN [key |-> key, value |-> value] ELSE d[i]]
    ELSE Append(d, [key |-> key, value |-> value])

DictValues(d) == [i \in 1..Len(d) |-> d[i].value]

\* mutant: a record of equal count also replaces the entry
MergeStep_TieReplaces(d, r) ==
    LET key == full_path(r)
    IN  IF ~DictHas(d, key) THEN DictSet(d, key, r)
        ELSE IF r.access_count >= DictGet(d, key).access_count
             THEN DictSet(d, key, r)
             ELSE d

\* mutant: the later record always wins
MergeStep_LastWins(d, r) == DictSet(d, full_path(r), r)

\* lines 57-61: one pass of the loop
MergeStep(d, r) ==
    LET key == full_path(r)
    IN  IF ~DictHas(d, key) THEN DictSet(d, key, r)
        ELSE IF r.access_count > DictGet(d, key).access_count
             THEN DictSet(d, key, r)
             ELSE d

\* lines 56-61: for result in info_schema_results + audit_log_results
RECURSIVE MergeLoop(_, _)
MergeLoop(d, rs) ==
    IF rs = <<>> THEN d ELSE MergeLoop(MergeStep(d, Head(rs)), Tail(rs))

\* mutant: an unstable sort, x goes before the elements of its own count
InsertDesc_BeforeTies(sorted, x) ==
    LET k == Cardinality({i \in 1..Len(sorted) :
                             sorted[i].access_count > x.access_count})
    IN  SubSeq(sorted, 1, k) \o <<x>> \o SubSeq(sorted, k + 1, Len(sorted))

\* x goes behind every element whose count is at least its own
InsertDesc(sorted, x) ==
    LET k == Cardinality({i \in 1..Len(sorted) :
                             sorted[i].access_count >= x.access_count})
    IN  SubSeq(sorted, 1, k) \o <<x>> \o SubSeq(sorted, k + 1, Len(sorted))

RECURSIVE SortFrom(_, _)
SortFrom(sorted, rest) ==
    IF rest = <<>> THEN sorted
    ELSE SortFrom(InsertDesc(sorted, Head(rest)), Tail(rest))

Reverse(s) == [i \in 1..Len(s) |-> s[Len(s) + 1 - i]]

\* mutant: sorted(values, key)[::-1], which also reverses the ties
SortedDesc_Reversed(values) == SortFrom(<<>>, Reverse(values))

\* lines 64-68: sorted(values, key=access_count, reverse=True), a stable sort
SortedDesc(values) == SortFrom(<<>>, values)

\* mutant: the Audit Log records are left out of the merge
merge_results_InfoOnly(info_schema_results, audit_log_results) ==
    SortedDesc(DictValues(MergeLoop(<<>>, info_schema_results)))

merge_results(info_schema_results, audit_log_results) ==
    LET table_max_counts ==
            MergeLoop(<<>>, info_schema_results \o audit_log_results)
    IN  SortedDesc(DictValues(table_max_counts))

\* the records one origin may report
RecordsOf(src) ==
    {TableAccessCount(<<"p">>, <<"d">>, t, n, src) :
        t \in {<<"t1">>, <<"t2">>}, n \in 0..MaxCount}

VARIABLES
    op,               \* the repository method being executed, "none" before
    pc,               \* position of the call
    table_ids,        \* argument table_ids / root_tables
    allowed_project_ids, \* argument allowed_project_ids
    allowed_projects, \* local: None or Some(set of projects)
    leaf_tables,      \* local: the leaves collected so far
    visited,          \* local: set of FQNs (find_leaf_tables_from_roots)
    queue,            \* local: deque of TableId (find_leaf_tables_from_roots)
    idx,              \* local: position of the for loop (get_leaf_tables)
    current,          \* local: the table being classified, None before
    client,           \* LineageClient of the call: "none", "open", "closed"
    closes,           \* number of client.transport.close() calls
    result,           \* None, or Some(list) once the call has returned
    error,            \* None, or Some(exception) once the call has raised
    api_down,         \* links served so far, by source FQN
    api_up,           \* links served so far, by target FQN
    links_left,       \* links the API may still serve
    calls             \* log of search_links calls, in order

lineage_vars == <<op, pc, table_ids, allowed_project_ids, allowed_projects,
                  leaf_tables, visited, queue, idx, current, client, closes,
                  result, error, api_down, api_up, links_left, calls>>

VARIABLES
    merge_pc,         \* "idle", "done" once merge_results has returned,
                      \* "remerged" once its output has been merged again
    merge_info,       \* argument info_schema_results
    merge_audit,      \* argument audit_log_results
    sorted_results,   \* the list merge_results returned
    remerged          \* the list merge_results(sorted_results, []) returned

merge_vars == <<merge_pc, merge_info, merge_audit, sorted_results, remerged>>

VARIABLES
    filter_pc,        \* "idle", or "done" once apply_filters has returned
    filter_results,   \* argument results
    filter_config,    \* argument filter_config
    filtered          \* the list apply_filters returned

filter_vars == <<filter_pc, filter_results, filter_config, filtered>>

VARIABLES
    count_pc,         \* position of the count_access call
    source,           \* argument source, a DataSourceOption
    config,           \* argument filter_config
    info_schema_adapter, \* self._info_schema_adapter: "adapter" or "none"
    audit_log_adapter,   \* self._audit_log_adapter: "adapter" or "none"
    warnings,         \* local: the warnings collected so far
    count_info_results, \* local: what the INFORMATION_SCHEMA fetch returned
    count_audit_results,   \* local: what the Audit Log fetch returned
    fetches,          \* log of fetch_table_access calls, in order
    report,           \* None, or Some(TableAccessResult) once returned
    count_error       \* None, or Some(exception) once the call has raised

count_vars == <<count_pc, source, config, info_schema_adapter,
                audit_log_adapter, warnings, count_info_results,
                count_audit_results, fetches, report, count_error>>

VARIABLES
    parse_pc,         \* "idle", or "done" once _parse_bigquery_fqn returned
    parse_fqn,        \* argument fqn
    parsed            \* what _parse_bigquery_fqn returned

parse_vars == <<parse_pc, parse_fqn, parsed>>

VARIABLES
    audit_pc,         \* position of the AuditLogAdapter.fetch_table_access call
    log_entries,      \* the entries Cloud Logging holds for the filter
    max_retries,      \* self._max_retries
    retry_delay,      \* self._retry_delay, in seconds
    retry_count,      \* local of _list_entries_with_retry
    delay,            \* local of _list_entries_with_retry
    yielded,          \* entries the current listing has yielded
    parsed_entries,   \* local of fetch_table_access
    list_calls,       \* number of list_entries calls
    sleeps,           \* the arguments of the time.sleep calls, in order
    api_failures,     \* the exceptions Cloud Logging raised, in order
    audit_outcome     \* None, or what fetch_table_access returned or raised

audit_vars == <<audit_pc, log_entries, max_retries, retry_delay, retry_count,
                delay, yielded, parsed_entries, list_calls, sleeps,
                api_failures, audit_outcome>>

vars == <<lineage_vars, merge_vars, filter_vars, count_vars, parse_vars,
          audit_vars>>

\* what a call of one component leaves alone
not_lineage_vars ==
    <<merge_vars, filter_vars, count_vars, parse_vars, audit_vars>>
not_merge_vars ==
    <<lineage_vars, filter_vars, count_vars, parse_vars, audit_vars>>
not_filter_vars ==
    <<lineage_vars, merge_vars, count_vars, parse_vars, audit_vars>>
not_count_vars ==
    <<lineage_vars, merge_vars, filter_vars, parse_vars, audit_vars>>
not_parse_vars ==
    <<lineage_vars, merge_vars, filter_vars, count_vars, audit_vars>>
not_audit_vars ==
    <<lineage_vars, merge_vars, filter_vars, count_vars, parse_vars>>

MergeInit ==
    /\ merge_pc = "idle"
    /\ merge_info = <<>>
    /\ merge_audit = <<>>
    /\ sorted_results = <<>>
    /\ remerged = <<>>

\* a call of merge_results
MergeCall(info_schema_results, audit_log_results) ==
    /\ merge_pc = "idle"
    /\ merge_info' = info_schema_results
    /\ merge_audit' = audit_log_results
    /\ sorted_results' = merge_results(info_schema_results, audit_log_results)
    /\ merge_pc' = "done"
    /\ UNCHANGED remerged
    /\ UNCHANGED not_merge_vars

\* a caller calls merge_results
Merge ==
    /\ merge_pc = "idle"
    /\ \E n \in 0..MaxLen :
          \E k \in 0..(MaxLen - n) :
              \E info_schema_results \in [1..n -> RecordsOf(INFORMATION_SCHEMA)],
                 audit_log_results \in [1..k -> RecordsOf(AUDIT_LOG)] :
                  MergeCall(info_schema_results, audit_log_results)

\* merge_results is called again, on its own output and an empty list
MergeAgain ==
    /\ merge_pc = "done"
    /\ remerged' = merge_results(sorted_results, <<>>)
    /\ merge_pc' = "remerged"
    /\ UNCHANGED <<merge_info, merge_audit, sorted_results>>
    /\ UNCHANGED not_merge_vars

(***************************************************************************)
(* table_access_counter.apply_filters                                      *)
(***************************************************************************)
\* FilterConfig; dates are whole days counted from now (0), the past below 0
FilterConfig(days, start_date, end_date, min_access_count) ==
    [days |-> days, start_date |-> start_date, end_date |-> end_date,
     min_access_count |-> min_access_count]

\* min_access_count: every count an origin reports, and one above them all
MinAccessCounts == 0..(MaxCount + 1)

\* mutant: the threshold is not applied
apply_filters_Off(results, filter_cfg) == results

\* mutant: the threshold itself is excluded
apply_filters_Strict(results, filter_cfg) ==
    SelectSeq(results,
              LAMBDA r : r.access_count > filter_cfg.min_access_count)

\* [r for r in results if r.access_count >= filter_config.min_access_count]
apply_filters(results, filter_cfg) ==
    SelectSeq(results,
              LAMBDA r : r.access_count >= filter_cfg.min_access_count)

FilterInit ==
    /\ filter_pc = "idle"
    /\ filter_results = <<>>
    /\ filter_config = FilterConfig(30, None, None, 0)
    /\ filtered = <<>>

\* a call of apply_filters
FilterCall(results, filter_cfg) ==
    /\ filter_pc = "idle"
    /\ filter_results' = results
    /\ filter_config' = filter_cfg
    /\ filtered' = apply_filters(results, filter_cfg)
    /\ filter_pc' = "done"
    /\ UNCHANGED not_filter_vars

\* a caller calls apply_filters
Filter ==
    /\ filter_pc = "idle"
    /\ \E n \in 0..MaxLen :
          \E results \in [1..n -> RecordsOf(INFORMATION_SCHEMA)],
             min_access_count \in MinAccessCounts :
              FilterCall(results, FilterConfig(30, None, None, min_access_count))

(***************************************************************************)
(* TableAccessCounter.count_access                                         *)
(***************************************************************************)
\* DataSourceOption
INFO_SCHEMA == "info_schema"
AUDIT_LOG_ONLY == "audit_log"
BOTH == "both"
DataSourceOptions == {INFO_SCHEMA, AUDIT_LOG_ONLY, BOTH}

INFO_SCHEMA_RETENTION_DAYS == 180

\* the exceptions derived from DatasetLoaderError that a fetch raises
DatasetLoaderErrors ==
    {"AuthenticationError", "PermissionDeniedError", "NetworkError",
     "QueryTimeoutError"}

\* an exception of the client library that the adapters do not translate
OtherErrors == {"BadRequest"}

\* the exception object a failed fetch of one origin raises
FetchError(type, origin) == [type |-> type, raised_by |-> origin]

\* except DatasetLoaderError
IsDatasetLoaderError(e) == e.type \in DatasetLoaderErrors

\* most records one fetch returns
MaxFetch == 1

\* what a call of fetch_table_access may do: return rows or raise
Fetched(rows) == [ok |-> TRUE, rows |-> rows, error |-> None]
FetchRaised(e) == [ok |-> FALSE, rows |-> <<>>, error |-> Some(e)]

\* the windows a caller asks for
Days == {30, INFO_SCHEMA_RETENTION_DAYS, INFO_SCHEMA_RETENTION_DAYS + 1}
StartDates == {None, Some(0 - 200), Some(0 - 100)}
EndDates == {None, Some(0)}

FilterConfigs ==
    {FilterConfig(days, start_date, end_date, min_access_count) :
        days \in Days, start_date \in StartDates, end_date \in EndDates,
        min_access_count \in {0, MaxCount}}

Adapters == {"adapter", "none"}

\* the warning strings
RetentionWarning(days) == [kind |-> "retention", days |-> days]
FetchWarning(origin, e) == [kind |-> "fetch_failed", origin |-> origin,
                            error |-> e]

\* lines 141-146
RetentionWarnings(filter_cfg) ==
    IF filter_cfg.days > INFO_SCHEMA_RETENTION_DAYS
    THEN <<RetentionWarning(filter_cfg.days)>>
    ELSE <<>>

\* mutant: the adapter is used without the None check
Configured_Unchecked(adapter) == TRUE

\* if self._info_schema_adapter is not None / self._audit_log_adapter ...
Configured(adapter) == adapter # "none"

\* mutant: every mode selects every origin
Selects_Any(option, only) == TRUE

\* source in (only, DataSourceOption.BOTH)
Selects(option, only) == option \in {only, BOTH}

\* mutant: a failure is re-raised in BOTH mode too
Reraise_Always(option, only) == TRUE

\* mutant: a failure is never re-raised
Reraise_Never(option, only) == FALSE

\* if source == only: raise
Reraise(option, only) == option = only

\* mutant: the warning replaces the list
AppendWarning_Replace(ws, w) == <<w>>

\* warnings.append(...)
AppendWarning(ws, w) == Append(ws, w)

\* TableAccessResult, lines 193-201
TableAccessResult(start_date, end_date, info, audit, merged, ws) ==
    [start_date |-> start_date, end_date |-> end_date,
     info_schema_results |-> info, audit_log_results |-> audit,
     merged_results |-> merged, warnings |-> ws]

CountInit ==
    /\ count_pc = "idle"
    /\ source = BOTH
    /\ config = FilterConfig(30, None, None, 0)
    /\ info_schema_adapter = "none"
    /\ audit_log_adapter = "none"
    /\ warnings = <<>>
    /\ count_info_results = <<>>
    /\ count_audit_results = <<>>
    /\ fetches = <<>>
    /\ report = None
    /\ count_error = None

\* lines 136-146: the locals, the retention warning
CountCall(filter_cfg, option, info_adapter, audit_adapter) ==
    /\ count_pc = "idle"
    /\ source' = option
    /\ config' = filter_cfg
    /\ info_schema_adapter' = info_adapter
    /\ audit_log_adapter' = audit_adapter
    /\ warnings' = RetentionWarnings(filter_cfg)
    /\ count_info_results' = <<>>
    /\ count_audit_results' = <<>>
    /\ count_pc' = "info_schema"
    /\ UNCHANGED <<fetches, report, count_error>>
    /\ UNCHANGED not_count_vars

\* a counter is built and count_access is called
CountCalled ==
    /\ count_pc = "idle"
    /\ \E filter_cfg \in FilterConfigs, option \in DataSourceOptions,
          info_adapter \in Adapters, audit_adapter \in Adapters :
          CountCall(filter_cfg, option, info_adapter, audit_adapter)

\* adapter.fetch_table_access(...) of one origin: the outcomes
FetchOutcomes(origin) ==
    {Fetched(rows) :
        rows \in UNION {[1..n -> RecordsOf(origin)] : n \in 0..MaxFetch}}
    \cup {FetchRaised(FetchError(type, origin)) :
             type \in DatasetLoaderErrors \cup OtherErrors}

\* lines 149-160 and 163-174: one origin's block.  results is what the
\* block assigns to the origin's list, next the position behind the block.
FetchBlock(only, origin, adapter, results, next) ==
    IF Selects(source, only) /\ Configured(adapter)
    THEN \E outcome \in FetchOutcomes(origin) :
            /\ fetches' = Append(fetches, [origin |-> origin,
                                            outcome |-> outcome])
            /\ IF outcome.ok
               THEN /\ results = outcome.rows
                    /\ count_pc' = next
                    /\ UNCHANGED <<warnings, count_error>>
               ELSE IF IsDatasetLoaderError(outcome.error[1])
                       /\ ~Reraise(source, only)
               THEN /\ warnings' = AppendWarning(warnings,
                            FetchWarning(origin, outcome.error[1]))
                    /\ results = <<>>
                    /\ count_pc' = next
                    /\ UNCHANGED count_error
               ELSE /\ count_error' = outcome.error
                    /\ results = <<>>
                    /\ count_pc' = "raised"
                    /\ UNCHANGED warnings
    ELSE /\ results = <<>>
         /\ count_pc' = next
         /\ UNCHANGED <<fetches, warnings, count_error>>

\* lines 149-160: the INFORMATION_SCHEMA fetch
CountInfoSchema ==
    /\ count_pc = "info_schema"
    /\ FetchBlock(INFO_SCHEMA, INFORMATION_SCHEMA, info_schema_adapter,
                  count_info_results', "audit_log")
    /\ UNCHANGED <<source, config, info_schema_adapter, audit_log_adapter,
                   count_audit_results, report>>
    /\ UNCHANGED not_count_vars

\* lines 163-174: the Audit Log fetch
CountAuditLog ==
    /\ count_pc = "audit_log"
    /\ FetchBlock(AUDIT_LOG_ONLY, AUDIT_LOG, audit_log_adapter,
                  count_audit_results', "assemble")
    /\ UNCHANGED <<source, config, info_schema_adapter, audit_log_adapter,
                   count_info_results, report>>
    /\ UNCHANGED not_count_vars

\* lines 176-201: merge, filter, the dates, the report
CountReturn ==
    /\ count_pc = "assemble"
    /\ LET merged_results == merge_results(count_info_results,
                                           count_audit_results)
           filtered_merged == apply_filters(merged_results, config)
           filtered_info == apply_filters(count_info_results, config)
           filtered_audit == apply_filters(count_audit_results, config)
           explicit == config.start_date # None /\ config.end_date # None
           start_date == IF explicit THEN config.start_date[1]
                         ELSE 0 - config.days
           end_date == IF explicit THEN config.end_date[1] ELSE 0
       IN  report' = Some(TableAccessResult(start_date, end_date,
                              filtered_info, filtered_audit,
                              filtered_merged, warnings))
    /\ count_pc' = "returned"
    /\ UNCHANGED <<source, config, info_schema_adapter, audit_log_adapter,
                   warnings, count_info_results, count_audit_results, fetches,
                   count_error>>
    /\ UNCHANGED not_count_vars

(***************************************************************************)
(* _parse_bigquery_fqn on arbitrary link ends                              *)
(***************************************************************************)
\* longest FQN, in tokens
MaxFqnLen == 6

\* the tokens of an FQN
FqnTokens == {"bigquery:", "sharded:", Dot, "p1", "d"}

ParseInit ==
    /\ parse_pc = "idle"
    /\ parse_fqn = <<>>
    /\ parsed = None

\* a call of _parse_bigquery_fqn
ParseCall(fqn) ==
    /\ parse_pc = "idle"
    /\ parse_fqn' = fqn
    /\ parsed' = parse_bigquery_fqn(fqn)
    /\ parse_pc' = "done"
    /\ UNCHANGED not_parse_vars

\* a search loop parses the source or target of a link
Parse ==
    /\ parse_pc = "idle"
    /\ \E n \in 0..MaxFqnLen :
          \E fqn \in [1..n -> FqnTokens] :
              ParseCall(fqn)

(***************************************************************************)
(* AuditLogAdapter.fetch_table_access and _list_entries_with_retry         *)
(***************************************************************************)
\* longest listing, most retries an adapter is configured with
MaxEntries == 2
MaxRetries == 2

_BACKOFF_MULTIPLIER == 2

\* a log entry: its resourceName, None when the payload carries none
LogEntry(resource_name) == [resource_name |-> resource_name]

ResourceName(p, d, t) ==
    <<"projects", "/">> \o p \o <<"/", "datasets", "/">> \o d
        \o <<"/", "tables", "/">> \o t

\* the entries a listing may hold
LogEntries ==
    {LogEntry(Some(ResourceName(<<"p">>, <<"d">>, t))) :
        t \in {<<"t1">>, <<"t2">>}}
    \cup {LogEntry(None), LogEntry(Some(<<"projects", "/", "p">>))}

\* parse_resource_name: the three names of projects/P/datasets/D/tables/T
parse_resource_name(resource_name) ==
    IF /\ Len(resource_name) >= 11
       /\ SubSeq(resource_name, 1, 2) = <<"projects", "/">>
       /\ SubSeq(resource_name, 4, 6) = <<"/", "datasets", "/">>
       /\ SubSeq(resource_name, 8, 10) = <<"/", "tables", "/">>
    THEN Some([project_id |-> <<resource_name[3]>>,
               dataset_id |-> <<resource_name[7]>>,
               table_id |-> <<resource_name[11]>>])
    ELSE None

\* lines 201-205: one pass of the loop over the entries
ParseEntry(parsed_so_far, entry) ==
    IF entry.resource_name = None THEN parsed_so_far
    ELSE parsed_so_far \o parse_resource_name(entry.resource_name[1])

\* the positions at which a key occurs for the first time
FirstSeen(entries) ==
    {i \in 1..Len(entries) : \A j \in 1..(i - 1) : entries[j] # entries[i]}

\* Counter: counter[key] += 1 for every parsed entry; the items are the
\* keys in first-seen order, each with the number of its occurrences
CountKeys(entries) ==
    [k \in 1..Cardinality(FirstSeen(entries)) |->
        LET i == CHOOSE f \in FirstSeen(entries) :
                     Cardinality({j \in FirstSeen(entries) : j <= f}) = k
        IN  [key |-> entries[i],
             value |-> Cardinality({j \in 1..Len(entries) :
                                       entries[j] = entries[i]})]]

\* aggregate_table_access_counts
aggregate_table_access_counts(entries) ==
    LET counter == CountKeys(entries)
    IN  SortedDesc([i \in 1..Len(counter) |->
            TableAccessCount(counter[i].key.project_id,
                             counter[i].key.dataset_id,
                             counter[i].key.table_id,
                             counter[i].value, AUDIT_LOG)])

\* mutant: the delay stays what it was
Backoff_Constant(seconds) == seconds

\* delay *= _BACKOFF_MULTIPLIER
Backoff(seconds) == seconds * _BACKOFF_MULTIPLIER

\* if retry_count > self._max_retries
RetriesExhausted(count, most) == count > most

AuditInit ==
    /\ audit_pc = "idle"
    /\ log_entries = <<>>
    /\ max_retries = 0
    /\ retry_delay = 1
    /\ retry_count = 0
    /\ delay = 1
    /\ yielded = 0
    /\ parsed_entries = <<>>
    /\ list_calls = 0
    /\ sleeps = <<>>
    /\ api_failures = <<>>
    /\ audit_outcome = None

\* lines 188-199 and 246-247: the generator is created, its locals set
AuditCall(entries, most, seconds) ==
    /\ audit_pc = "idle"
    /\ log_entries' = entries
    /\ max_retries' = most
    /\ retry_delay' = seconds
    /\ retry_count' = 0
    /\ delay' = seconds
    /\ parsed_entries' = <<>>
    /\ audit_pc' = "list"
    /\ UNCHANGED <<yielded, list_calls, sleeps, api_failures, audit_outcome>>
    /\ UNCHANGED not_audit_vars

\* an adapter is built and fetch_table_access is called
AuditCalled ==
    /\ audit_pc = "idle"
    /\ \E n \in 0..MaxEntries :
          \E entries \in [1..n -> LogEntries], most \in 0..MaxRetries,
             seconds \in {1, 3} :
              AuditCall(entries, most, seconds)

\* lines 249-256: list_entries is called, the listing starts at its head
AuditListEntries ==
    /\ audit_pc = "list"
    /\ list_calls' = list_calls + 1
    /\ yielded' = 0
    /\ audit_pc' = "iterate"
    /\ UNCHANGED <<log_entries, max_retries, retry_delay, retry_count, delay,
                   parsed_entries, sleeps, api_failures, audit_outcome>>
    /\ UNCHANGED not_audit_vars

\* lines 258-259 and 201-207: the listing yields its next entry, the loop of
\* fetch_table_access parses it
AuditYield ==
    /\ audit_pc = "iterate"
    /\ yielded < Len(log_entries)
    /\ yielded' = yielded + 1
    /\ parsed_entries' = ParseEntry(parsed_entries, log_entries[yielded + 1])
    /\ UNCHANGED <<audit_pc, log_entries, max_retries, retry_delay,
                   retry_count, delay, list_calls, sleeps, api_failures,
                   audit_outcome>>
    /\ UNCHANGED not_audit_vars

\* lines 260 and 216-226: the listing is over, the counts are returned
AuditReturn ==
    /\ audit_pc = "iterate"
    /\ yielded = Len(log_entries)
    /\ audit_outcome' = Fetched(aggregate_table_access_counts(parsed_entries))
    /\ audit_pc' = "returned"
    /\ UNCHANGED <<log_entries, max_retries, retry_delay, retry_count, delay,
                   yielded, parsed_entries, list_calls, sleeps, api_failures>>
    /\ UNCHANGED not_audit_vars

\* the generator raises: fetch_table_access does not catch
AuditRaise(type) ==
    /\ audit_outcome' = FetchRaised(FetchError(type, AUDIT_LOG))
    /\ audit_pc' = "raised"

\* lines 261-266: list_entries or a page of the listing raises
\* PermissionDenied
AuditPermissionDenied ==
    /\ audit_pc = "iterate"
    /\ api_failures' = Append(api_failures, "PermissionDenied")
    /\ AuditRaise("PermissionDeniedError")
    /\ UNCHANGED <<log_entries, max_retries, retry_delay, retry_count, delay,
                   yielded, parsed_entries, list_calls, sleeps>>
    /\ UNCHANGED not_audit_vars

\* lines 267-279: ... raises ResourceExhausted
AuditResourceExhausted ==
    /\ audit_pc = "iterate"
    /\ api_failures' = Append(api_failures, "ResourceExhausted")
    /\ retry_count' = retry_count + 1
    /\ IF RetriesExhausted(retry_count', max_retries)
       THEN /\ AuditRaise("NetworkError")
            /\ UNCHANGED <<sleeps, delay>>
       ELSE /\ sleeps' = Append(sleeps, delay)
            /\ delay' = Backoff(delay)
            /\ audit_pc' = "list"
            /\ UNCHANGED audit_outcome
    /\ UNCHANGED <<log_entries, max_retries, retry_delay, yielded,
                   parsed_entries, list_calls>>
    /\ UNCHANGED not_audit_vars

\* lines 280-282: ... raises ServiceUnavailable
AuditServiceUnavailable ==
    /\ audit_pc = "iterate"
    /\ api_failures' = Append(api_failures, "ServiceUnavailable")
    /\ AuditRaise("NetworkError")
    /\ UNCHANGED <<log_entries, max_retries, retry_delay, retry_count, delay,
                   yielded, parsed_entries, list_calls, sleeps>>
    /\ UNCHANGED not_audit_vars

\* mutant: the allow-list is applied to the upstream side too
UpstreamCount_Filtered(upstream) ==
    Len(FilterAllowed(upstream, allowed_projects))

\* upstream_count=len(upstream)
UpstreamCount(upstream) == Len(upstream)

LineageInit ==
    /\ op = "none"
    /\ pc = "idle"
    /\ table_ids = <<>>
    /\ allowed_project_ids = None
    /\ allowed_projects = None
    /\ leaf_tables = <<>>
    /\ visited = {}
    /\ queue = <<>>
    /\ idx = 1
    /\ current = None
    /\ client = "none"
    /\ closes = 0
    /\ result = None
    /\ error = None
    /\ api_down = <<>>
    /\ api_up = <<>>
    /\ links_left = MaxLinks
    /\ calls = <<>>

(***************************************************************************)
(* The Lineage API (LineageClient.search_links).  The lineage graph is     *)
(* fixed but unknown: the first lookup of an FQN decides the links it has, *)
(* a repeated lookup is served the same links.  A lookup may also fail     *)
(* with a GoogleAPIError.                                                  *)
(***************************************************************************)
Responses(api, fqn, ends) ==
    IF fqn \in DOMAIN api THEN {api[fqn]}
    ELSE SeqUpTo(ends, links_left)

Serve(api, fqn, links) ==
    IF fqn \in DOMAIN api THEN api ELSE (fqn :> links) @@ api

Budget(api, fqn, links) ==
    IF fqn \in DOMAIN api THEN links_left ELSE links_left - Len(links)

Call(direction, fqn, ok) == [direction |-> direction, fqn |-> fqn, ok |-> ok]

\* mutant: the transport is not closed
CloseTransport_Leak(n) == n

\* get_client's finally: client.transport.close()
CloseTransport(n) == n + 1

\* mutant: the failed lookup is swallowed and the loop goes on
RaiseRepositoryError_Swallow(operation) ==
    /\ UNCHANGED <<client, closes, error>>
    /\ pc' = "loop"

\* LineageApiError raised by _search_*_tables inside the with block:
\* get_client's finally closes the transport, the method wraps the error
RaiseRepositoryError(operation) ==
    /\ client' = "closed"
    /\ closes' = CloseTransport(closes)
    /\ error' = Some([type |-> "LineageRepositoryError",
                      cause |-> "LineageApiError",
                      operation |-> operation])
    /\ pc' = "raised"

\* No call of the code reaches these: the queue holds at most the roots and
\* one entry per served link, and a call makes at most two lookups per
\* argument or served link.
QueueCap == MaxRoots + MaxLinks
CallCap == 2 * (MaxRoots + MaxLinks)

\* mutant: the loop takes the first table again
NextTable_First(tables, i) == tables[1]

\* for table_id in table_ids: the element of the i-th pass
NextTable(tables, i) == tables[i]

\* mutant: the head is read but not removed
PopLeft_Peek(q) == q

\* queue.popleft(): what is left of the queue
PopLeft(q) == Tail(q)

(***************************************************************************)
(* find_leaf_tables_from_roots                                             *)
(***************************************************************************)
\* lines 152-161: the early return, the locals, the client
FindCall(root_tables, allow) ==
    /\ UNCHANGED not_lineage_vars
    /\ pc = "idle"
    /\ op' = "find_leaf_tables_from_roots"
    /\ table_ids' = root_tables
    /\ allowed_project_ids' = allow
    /\ \/ /\ NoTables(root_tables)
          /\ pc' = "returned"
          /\ result' = Some(<<>>)
          /\ UNCHANGED <<allowed_projects, queue, client, error>>
       \/ /\ ~NoTables(root_tables)
          /\ allowed_projects' = AllowedProjects(allow)
          /\ queue' = root_tables
          /\ \/ /\ client' = "open"
                /\ pc' = "loop"
                /\ UNCHANGED error
             \/ \* LineageClient() fails: get_client raises LineageConnectionError
                /\ client' = "none"
                /\ pc' = "raised"
                /\ error' = Some([type |-> "LineageConnectionError",
                                  cause |-> "GoogleAPIError",
                                  operation |-> "LineageClient"])
          /\ UNCHANGED result
    /\ UNCHANGED <<leaf_tables, visited, idx, current, closes, api_down,
                   api_up, links_left, calls>>

\* lines 162-168: popleft, the visited check, visited.add
FindDequeue ==
    /\ UNCHANGED not_lineage_vars
    /\ op = "find_leaf_tables_from_roots"
    /\ pc = "loop"
    /\ queue # <<>>
    /\ current' = Some(Head(queue))
    /\ queue' = PopLeft(queue)
    /\ LET fqn == build_bigquery_fqn(Head(queue))
       IN  IF AlreadyVisited(visited, fqn)
           THEN /\ pc' = "loop"
                /\ UNCHANGED visited
           ELSE /\ pc' = "downstream"
                /\ visited' = MarkVisited(visited, fqn)
    /\ UNCHANGED <<op, table_ids, allowed_project_ids, allowed_projects,
                   leaf_tables, idx, client, closes, result, error, api_down,
                   api_up, links_left, calls>>

\* lines 170-180, 190-193: the downstream lookup, the filter, the enqueue
FindDownstream ==
    /\ UNCHANGED not_lineage_vars
    /\ op = "find_leaf_tables_from_roots"
    /\ pc = "downstream"
    /\ Len(calls) < CallCap
    /\ LET fqn == build_bigquery_fqn(current[1])
       IN  \/ /\ calls' = Append(calls, Call("downstream", fqn, FALSE))
              /\ RaiseRepositoryError("search_links (downstream)")
              /\ UNCHANGED <<queue, api_down, links_left>>
           \/ \E links \in Responses(api_down, fqn, TargetFqns) :
                LET downstream ==
                        FilterAllowed(search_tables(links), allowed_projects)
                IN  /\ calls' = Append(calls, Call("downstream", fqn, TRUE))
                    /\ api_down' = Serve(api_down, fqn, links)
                    /\ links_left' = Budget(api_down, fqn, links)
                    /\ IF downstream = <<>>
                       THEN /\ pc' = "upstream"
                            /\ UNCHANGED queue
                       ELSE /\ pc' = "loop"
                            /\ queue' = Enqueue(queue, downstream, visited)
                            /\ Len(queue') <= QueueCap
                    /\ UNCHANGED <<client, closes, error>>
    /\ UNCHANGED <<op, table_ids, allowed_project_ids, allowed_projects,
                   leaf_tables, visited, idx, current, result, api_up>>

\* lines 181-189: the upstream lookup, the leaf
FindUpstream ==
    /\ UNCHANGED not_lineage_vars
    /\ op = "find_leaf_tables_from_roots"
    /\ pc = "upstream"
    /\ Len(calls) < CallCap
    /\ LET fqn == build_bigquery_fqn(current[1])
       IN  \/ /\ calls' = Append(calls, Call("upstream", fqn, FALSE))
              /\ RaiseRepositoryError("search_links (upstream)")
              /\ UNCHANGED <<leaf_tables, api_up, links_left>>
           \/ \E links \in Responses(api_up, fqn, SourceFqns) :
                LET upstream == search_tables(links)
                IN  /\ calls' = Append(calls, Call("upstream", fqn, TRUE))
                    /\ api_up' = Serve(api_up, fqn, links)
                    /\ links_left' = Budget(api_up, fqn, links)
                    /\ leaf_tables' = Append(leaf_tables,
                           LeafTable(current[1], UpstreamCount(upstream)))
                    /\ pc' = "loop"
                    /\ UNCHANGED <<client, closes, error>>
    /\ UNCHANGED <<op, table_ids, allowed_project_ids, allowed_projects,
                   visited, queue, idx, current, result, api_down>>

\* lines 162, 195: the queue is empty, the with block closes the client
FindReturn ==
    /\ UNCHANGED not_lineage_vars
    /\ op = "find_leaf_tables_from_roots"
    /\ pc = "loop"
    /\ queue = <<>>
    /\ client' = "closed"
    /\ closes' = CloseTransport(closes)
    /\ result' = Some(leaf_tables)
    /\ pc' = "returned"
    /\ UNCHANGED <<op, table_ids, allowed_project_ids, allowed_projects,
                   leaf_tables, visited, queue, idx, current, error, api_down,
                   api_up, links_left, calls>>

\* a caller calls find_leaf_tables_from_roots
FindCalled ==
    /\ pc = "idle"
    /\ \E root_tables \in SeqUpTo(ArgTables, MaxRoots), allow \in AllowLists :
          FindCall(root_tables, allow)

(***************************************************************************)
(* get_leaf_tables                                                         *)
(***************************************************************************)
\* lines 86-93: the early return, the locals, the client
GetCall(tables, allow) ==
    /\ UNCHANGED not_lineage_vars
    /\ pc = "idle"
    /\ op' = "get_leaf_tables"
    /\ table_ids' = tables
    /\ allowed_project_ids' = allow
    /\ \/ /\ NoTables(tables)
          /\ pc' = "returned"
          /\ result' = Some(<<>>)
          /\ UNCHANGED <<allowed_projects, client, error>>
       \/ /\ ~NoTables(tables)
          /\ allowed_projects' = AllowedProjects(allow)
          /\ \/ /\ client' = "open"
                /\ pc' = "loop"
                /\ UNCHANGED error
             \/ /\ client' = "none"
                /\ pc' = "raised"
                /\ error' = Some([type |-> "LineageConnectionError",
                                  cause |-> "GoogleAPIError",
                                  operation |-> "LineageClient"])
          /\ UNCHANGED result
    /\ UNCHANGED <<leaf_tables, visited, queue, idx, current, closes,
                   api_down, api_up, links_left, calls>>

\* line 94: the for loop takes the next table
GetNext ==
    /\ UNCHANGED not_lineage_vars
    /\ op = "get_leaf_tables"
    /\ pc = "loop"
    /\ idx <= Len(table_ids)
    /\ current' = Some(NextTable(table_ids, idx))
    /\ idx' = idx + 1
    /\ pc' = "downstream"
    /\ UNCHANGED <<op, table_ids, allowed_project_ids, allowed_projects,
                   leaf_tables, visited, queue, client, closes, result, error,
                   api_down, api_up, links_left, calls>>

\* lines 95-109: the downstream lookup and the filter
GetDownstream ==
    /\ UNCHANGED not_lineage_vars
    /\ op = "get_leaf_tables"
    /\ pc = "downstream"
    /\ Len(calls) < CallCap
    /\ LET fqn == build_bigquery_fqn(current[1])
       IN  \/ /\ calls' = Append(calls, Call("downstream", fqn, FALSE))
              /\ RaiseRepositoryError("search_links (downstream)")
              /\ UNCHANGED <<api_down, links_left>>
           \/ \E links \in Responses(api_down, fqn, TargetFqns) :
                LET downstream_tables ==
                        FilterAllowed(search_tables(links), allowed_projects)
                IN  /\ calls' = Append(calls, Call("downstream", fqn, TRUE))
                    /\ api_down' = Serve(api_down, fqn, links)
                    /\ links_left' = Budget(api_down, fqn, links)
                    /\ pc' = IF Len(downstream_tables) = 0
                             THEN "upstream" ELSE "loop"
                    /\ UNCHANGED <<client, closes, error>>
    /\ UNCHANGED <<op, table_ids, allowed_project_ids, allowed_projects,
                   leaf_tables, visited, queue, idx, current, result, api_up>>

\* lines 110-119: the upstream lookup, the leaf
GetUpstream ==
    /\ UNCHANGED not_lineage_vars
    /\ op = "get_leaf_tables"
    /\ pc = "upstream"
    /\ Len(calls) < CallCap
    /\ LET fqn == build_bigquery_fqn(current[1])
       IN  \/ /\ calls' = Append(calls, Call("upstream", fqn, FALSE))
              /\ RaiseRepositoryError("search_links (upstream)")
              /\ UNCHANGED <<leaf_tables, api_up, links_left>>
           \/ \E links \in Responses(api_up, fqn, SourceFqns) :
                LET upstream_tables == search_tables(links)
                IN  /\ calls' = Append(calls, Call("upstream", fqn, TRUE))
                    /\ api_up' = Serve(api_up, fqn, links)
                    /\ links_left' = Budget(api_up, fqn, links)
                    /\ leaf_tables' = Append(leaf_tables,
                           LeafTable(current[1], UpstreamCount(upstream_tables)))
                    /\ pc' = "loop"
                    /\ UNCHANGED <<client, closes, error>>
    /\ UNCHANGED <<op, table_ids, allowed_project_ids, allowed_projects,
                   visited, queue, idx, current, result, api_down>>

\* lines 94, 121: the loop is over, the with block closes the client
GetReturn ==
    /\ UNCHANGED not_lineage_vars
    /\ op = "get_leaf_tables"
    /\ pc = "loop"
    /\ idx > Len(table_ids)
    /\ client' = "closed"
    /\ closes' = CloseTransport(closes)
    /\ result' = Some(leaf_tables)
    /\ pc' = "returned"
    /\ UNCHANGED <<op, table_ids, allowed_project_ids, allowed_projects,
                   leaf_tables, visited, queue, idx, current, error, api_down,
                   api_up, links_left, calls>>

\* a caller calls get_leaf_tables
GetCalled ==
    /\ pc = "idle"
    /\ \E tables \in SeqUpTo(ArgTables, MaxRoots), allow \in AllowLists :
          GetCall(tables, allow)

(***************************************************************************)
(* get_table_lineage                                                       *)
(***************************************************************************)
LineageNode(table_id, upstream_tables, downstream_tables) ==
    [table_id |-> table_id, upstream_tables |-> upstream_tables,
     downstream_tables |-> downstream_tables,
     is_leaf |-> Len(downstream_tables) = 0]

\* lines 42-44: the client, the FQN
NodeCall(table_id) ==
    /\ UNCHANGED not_lineage_vars
    /\ pc = "idle"
    /\ op' = "get_table_lineage"
    /\ table_ids' = <<table_id>>
    /\ current' = Some(table_id)
    /\ \/ /\ client' = "open"
          /\ pc' = "upstream"
          /\ UNCHANGED error
       \/ /\ client' = "none"
          /\ pc' = "raised"
          /\ error' = Some([type |-> "LineageConnectionError",
                            cause |-> "GoogleAPIError",
                            operation |-> "LineageClient"])
    /\ UNCHANGED <<allowed_project_ids, allowed_projects, leaf_tables,
                   visited, queue, idx, closes, result, api_down, api_up,
                   links_left, calls>>

\* lines 46-48: the upstream lookup
NodeUpstream ==
    /\ UNCHANGED not_lineage_vars
    /\ op = "get_table_lineage"
    /\ pc = "upstream"
    /\ LET fqn == build_bigquery_fqn(current[1])
       IN  \/ /\ calls' = Append(calls, Call("upstream", fqn, FALSE))
              /\ RaiseRepositoryError("search_links (upstream)")
              /\ UNCHANGED <<api_up, links_left>>
           \/ \E links \in Responses(api_up, fqn, SourceFqns) :
                /\ calls' = Append(calls, Call("upstream", fqn, TRUE))
                /\ api_up' = Serve(api_up, fqn, links)
                /\ links_left' = Budget(api_up, fqn, links)
                /\ pc' = "downstream"
                /\ UNCHANGED <<client, closes, error>>
    /\ UNCHANGED <<op, table_ids, allowed_project_ids, allowed_projects,
                   leaf_tables, visited, queue, idx, current, result,
                   api_down>>

\* lines 50-59: the downstream lookup, the node; the with block closes the
\* client.  upstream_tables is what the upstream lookup returned, the
\* tables of the links api_up holds for the FQN.
NodeDownstream ==
    /\ UNCHANGED not_lineage_vars
    /\ op = "get_table_lineage"
    /\ pc = "downstream"
    /\ LET fqn == build_bigquery_fqn(current[1])
           upstream_tables == search_tables(api_up[fqn])
       IN  \/ /\ calls' = Append(calls, Call("downstream", fqn, FALSE))
              /\ RaiseRepositoryError("search_links (downstream)")
              /\ UNCHANGED <<result, api_down, links_left>>
           \/ \E links \in Responses(api_down, fqn, TargetFqns) :
                LET downstream_tables == search_tables(links)
                IN  /\ calls' = Append(calls, Call("downstream", fqn, TRUE))
                    /\ api_down' = Serve(api_down, fqn, links)
                    /\ links_left' = Budget(api_down, fqn, links)
                    /\ result' = Some(LineageNode(current[1], upstream_tables,
                                                  downstream_tables))
                    /\ client' = "closed"
                    /\ closes' = CloseTransport(closes)
                    /\ pc' = "returned"
                    /\ UNCHANGED error
    /\ UNCHANGED <<op, table_ids, allowed_project_ids, allowed_projects,
                   leaf_tables, visited, queue, idx, current, api_up>>

\* a caller calls get_table_lineage
NodeCalled ==
    /\ pc = "idle"
    /\ \E table_id \in ArgTables : NodeCall(table_id)

Init ==
    /\ LineageInit
    /\ MergeInit
    /\ FilterInit
    /\ CountInit
    /\ ParseInit
    /\ AuditInit

\* the lineage repository
Next ==
    \/ FindCalled
    \/ FindDequeue
    \/ FindDownstream
    \/ FindUpstream
    \/ FindReturn
    \/ GetCalled
    \/ GetNext
    \/ GetDownstream
    \/ GetUpstream
    \/ GetReturn

Spec == Init /\ [][Next]_vars

\* the lineage repository with its three methods
RepositoryNext ==
    \/ FindCalled
    \/ FindDequeue
    \/ FindDownstream
    \/ FindUpstream
    \/ FindReturn
    \/ GetCalled
    \/ GetNext
    \/ GetDownstream
    \/ GetUpstream
    \/ GetReturn
    \/ NodeCalled
    \/ NodeUpstream
    \/ NodeDownstream

SpecRepository == Init /\ [][RepositoryNext]_vars

\* AuditLogAdapter.fetch_table_access
AuditNext ==
    \/ AuditCalled
    \/ AuditListEntries
    \/ AuditYield
    \/ AuditPermissionDenied
    \/ AuditResourceExhausted
    \/ AuditServiceUnavailable
    \/ AuditReturn

SpecAudit == Init /\ [][AuditNext]_vars

\* The adapter is sequential code and list_entries, the pages of a listing
\* and time.sleep all return or raise: a call that can take its next step
\* takes it.
FairSpecAudit == Init /\ [][AuditNext]_vars /\ WF_vars(AuditNext)

\* _parse_bigquery_fqn
SpecParse == Init /\ [][Parse]_vars

\* count_access
CountNext ==
    \/ CountCalled
    \/ CountInfoSchema
    \/ CountAuditLog
    \/ CountReturn

SpecCount == Init /\ [][CountNext]_vars

\* apply_filters
SpecFilter == Init /\ [][Filter]_vars

\* merge_results
MergeNext ==
    \/ Merge
    \/ MergeAgain

SpecMerge == Init /\ [][MergeNext]_vars

\* find_leaf_tables_from_roots with collaborators that do not fail: the
\* client is created and every edge lookup returns.  The method is
\* sequential code: a call that can take its next step takes it.
LookupsReturn == pc' # "raised"

\* the calls without an allow-list and with one that shuts a project out;
\* the traversal reads the argument through allowed_projects only, which is
\* None for [] as for None, and [p1, p2] shuts nothing out
FairAllowLists == {None, Some(<<P1>>)}

FairNext ==
    \/ FindCalled /\ LookupsReturn /\ allowed_project_ids' \in FairAllowLists
    \/ FindDequeue
    \/ FindDownstream /\ LookupsReturn
    \/ FindUpstream /\ LookupsReturn
    \/ FindReturn

FairSpec == Init /\ [][FairNext]_vars /\ WF_vars(FairNext)

(***************************************************************************)
(* Reference definitions for the properties of the traversals.             *)
(***************************************************************************)
Find_op == op = "find_leaf_tables_from_roots"
Get_op == op = "get_leaf_tables"
Returned == pc = "returned"
Raised == pc = "raised"

LeafIds(leaves) == [i \in 1..Len(leaves) |-> leaves[i].table_id]

\* the calls of one direction, in order
CallsOf(direction) == SelectSeq(calls, LAMBDA c : c.direction = direction)
CallsFor(direction, fqn) ==
    SelectSeq(calls, LAMBDA c : c.direction = direction /\ c.fqn = fqn)

Known(t) == build_bigquery_fqn(t) \in DOMAIN api_down

\* Downstream(t): the tables the downstream lookup of t returns
Downstream(t) ==
    IF Known(t) THEN Range(search_tables(api_down[build_bigquery_fqn(t)]))
    ELSE {}

\* an allow-list is set when the argument is a non-empty list
AllowListSet == allowed_project_ids # None /\ allowed_project_ids[1] # <<>>

InScope(t) ==
    AllowListSet => t.project_id \in Range(allowed_project_ids[1])

filteredDownstream(t) == {dt \in Downstream(t) : InScope(dt)}

\* seen and what is reachable from frontier along filteredDownstream, the
\* tables of seen outside frontier having no downstream table outside seen
RECURSIVE ClosureFrom(_, _)
ClosureFrom(seen, frontier) ==
    LET next == UNION {filteredDownstream(t) : t \in frontier} \ seen
    IN  IF next = {} THEN seen ELSE ClosureFrom(seen \cup next, next)

\* the least set containing S and closed under filteredDownstream
Closure(S) == ClosureFrom(S, S)

Reach == Closure(Range(table_ids))

(***************************************************************************)
(* Properties of find_leaf_tables_from_roots and get_leaf_tables.          *)
(***************************************************************************)
\* every table reachable from the roots has a downstream table in scope
NoReachableLeaf == \A t \in Reach : filteredDownstream(t) # {}

FindDone ==
    /\ Returned
    /\ queue = <<>>
    /\ result # None
    /\ error = None
    /\ NoReachableLeaf => result = Some(<<>>)

\* C1: on every finite lineage graph, cyclic or not, and every root list a
\* call of find_leaf_tables_from_roots whose edge lookups all return
\* terminates: the queue becomes empty and the call returns a list; on a
\* graph in which every reachable table has a downstream table (a pure
\* cycle) the list is empty and nothing is raised.  (Every behaviour of
\* FairSpec is one call, so the call terminating is the behaviour reaching
\* FindDone.)
C1_Terminates == <>FindDone

FqnA == build_bigquery_fqn(TA)
FqnB == build_bigquery_fqn(TB)
FqnC == build_bigquery_fqn(TC)

\* the cycle A -> B -> C -> A, explored from A to the end
C1_Witness ==
    /\ Find_op /\ Returned
    /\ table_ids = <<TA>>
    /\ DOMAIN api_down = {FqnA, FqnB, FqnC}
    /\ api_down[FqnA] = <<FqnB>>
    /\ api_down[FqnB] = <<FqnC>>
    /\ api_down[FqnC] = <<FqnA>>
    /\ result = Some(<<>>)

\* the downstream lookups issued so far, failed ones included
NumDownstreamCalls == Len(CallsOf("downstream"))

\* the table marked visited whose lookup has not been issued yet
Pending == IF pc = "downstream" THEN 1 ELSE 0

\* C2: during a call of find_leaf_tables_from_roots the visited set never
\* shrinks, every dequeue of an unvisited table adds exactly that table's FQN
\* (a skipped dequeue adds nothing), and the number of downstream lookups
\* equals the size of the visited set, not counting the table that was just
\* marked and is about to be looked up; no FQN is looked up twice.
C2_VisitedGrows ==
    [][Find_op' =>
         /\ visited \subseteq visited'
         /\ (Find_op /\ pc = "loop" /\ queue # <<>> =>
               LET fqn == build_bigquery_fqn(Head(queue))
               IN  IF fqn \in visited
                   THEN visited' = visited /\ calls' = calls
                   ELSE /\ visited' = visited \cup {fqn}
                        /\ Cardinality(visited') = Cardinality(visited) + 1)
         /\ NumDownstreamCalls' = Cardinality(visited') - Pending'
         /\ \A f \in visited' : Len(CallsFor("downstream", f)) <= 1
      ]_vars

\* a table reached along two paths, queued twice, looked up once
C2_Witness ==
    /\ Find_op /\ Returned
    /\ table_ids = <<TA>>
    /\ DOMAIN api_down = {FqnA, FqnB, FqnC}
    /\ api_down[FqnA] = <<FqnB, FqnC>>
    /\ api_down[FqnB] = <<FqnC>>
    /\ api_down[FqnC] = <<>>
    /\ visited = {FqnA, FqnB, FqnC}
    /\ NumDownstreamCalls = 3

LeafSet == IF result = None THEN {} ELSE Range(LeafIds(result[1]))

\* C3: the set of tables find_leaf_tables_from_roots returns is
\* { t in R : filteredDownstream(t) is empty }, R the least set holding the
\* roots and closed under filteredDownstream; every table of R has been
\* looked up.
C3_LeafSetIsReference ==
    Find_op /\ Returned =>
        LET R == Reach
        IN  /\ \A t \in R : Known(t)
            /\ LeafSet = {t \in R : filteredDownstream(t) = {}}

\* A -> B, C with C out of scope and B a leaf behind a non-table link
C3_Witness ==
    /\ Find_op /\ Returned
    /\ table_ids = <<TA>>
    /\ allowed_project_ids = Some(<<P1>>)
    /\ DOMAIN api_down = {FqnA, FqnB}
    /\ api_down[FqnA] = <<FqnB, FqnC>>
    /\ api_down[FqnB] = <<OtherFqn>>
    /\ LeafSet = {TB}

\* C4: the allow-list filters expansion targets only: every root is looked
\* up downstream exactly once, in or out of the allow-list, and a root whose
\* downstream tables are all out of scope is returned as a leaf.
C4_RootsClassified ==
    Find_op /\ Returned =>
        \A r \in Range(table_ids) :
            /\ Len(CallsFor("downstream", build_bigquery_fqn(r))) = 1
            /\ (\A dt \in Downstream(r) : ~InScope(dt)) => r \in LeafSet

\* root C lies outside the allow-list and is looked up; root A has only C
\* downstream and is a leaf
C4_Witness ==
    /\ Find_op /\ Returned
    /\ table_ids = <<TC, TA>>
    /\ allowed_project_ids = Some(<<P1>>)
    /\ DOMAIN api_down = {FqnA, FqnC}
    /\ api_down[FqnC] = <<FqnA>>
    /\ api_down[FqnA] = <<FqnC>>
    /\ LeafSet = {TA}

\* C5: every LeafTable carries as upstream_count the number of tables its
\* upstream lookup returned, the allow-list not applied; an upstream lookup
\* is issued only for a table whose filtered downstream set is empty.
C5_UpstreamCount ==
    /\ \A i \in 1..Len(leaf_tables) :
          LET fqn == build_bigquery_fqn(leaf_tables[i].table_id)
          IN  /\ fqn \in DOMAIN api_up
              /\ leaf_tables[i].upstream_count
                     = Len(search_tables(api_up[fqn]))
    /\ \A i \in 1..Len(calls) :
          calls[i].direction = "upstream" =>
              \E t \in Tables :
                  /\ calls[i].fqn = build_bigquery_fqn(t)
                  /\ Known(t)
                  /\ filteredDownstream(t) = {}

\* a leaf whose only upstream table lies outside the allow-list
C5_Witness ==
    /\ Returned
    /\ allowed_project_ids = Some(<<P1>>)
    /\ FqnA \in DOMAIN api_up
    /\ api_up[FqnA] = <<OtherFqn, FqnC>>
    /\ result = Some(<<LeafTable(TA, 1)>>)

\* C6: a failed edge lookup is the last lookup of the call; the call raises
\* LineageRepositoryError wrapping the LineageApiError and returns nothing.
C6_AllOrNothing ==
    \A i \in 1..Len(calls) :
        ~calls[i].ok =>
            /\ i = Len(calls)
            /\ Raised
            /\ result = None
            /\ error # None
            /\ error[1].type = "LineageRepositoryError"
            /\ error[1].cause = "LineageApiError"

\* a lookup fails after a leaf has been collected
C6_Witness ==
    /\ Raised
    /\ leaf_tables # <<>>
    /\ Len(calls) >= 3
    /\ ~calls[Len(calls)].ok
    /\ result = None

\* C7: get_leaf_tables returns, in input order, exactly the input tables
\* whose allow-list-filtered downstream set is empty.
C7_GetLeavesSubsequence ==
    Get_op /\ Returned =>
        /\ \A t \in Range(table_ids) : Known(t)
        /\ LeafIds(result[1])
               = SelectSeq(table_ids, LAMBDA t : filteredDownstream(t) = {})

\* C has an in-scope downstream table, A only an out-of-scope one
C7_Witness ==
    /\ Get_op /\ Returned
    /\ table_ids = <<TC, TA>>
    /\ allowed_project_ids = Some(<<P1>>)
    /\ DOMAIN api_down = {FqnA, FqnC}
    /\ api_down[FqnC] = <<FqnB>>
    /\ api_down[FqnA] = <<FqnC>>
    /\ LeafIds(result[1]) = <<TA>>

\* C8: an empty table list returns the empty list at once: no client is
\* obtained, nothing is closed, no lookup is issued.
C8_EmptyInput ==
    op # "none" /\ table_ids = <<>> =>
        /\ Returned
        /\ result = Some(<<>>)
        /\ error = None
        /\ client = "none"
        /\ closes = 0
        /\ calls = <<>>

C8_Witness ==
    /\ Find_op
    /\ table_ids = <<>>
    /\ Returned

\* a table named by the root list
IsRoot(t) == t \in Range(table_ids)

\* the table a lookup was issued for
LookedUp(t) ==
    \E i \in 1..Len(calls) : calls[i].fqn = build_bigquery_fqn(t)

\* C19: with an allow-list set, find_leaf_tables_from_roots never enqueues
\* and never looks up, downstream or upstream, a table whose project is
\* outside the list, unless the table is a root; a table that has downstream
\* tables, all of them outside the list, is where exploration stops and is
\* returned as a leaf.
C19_ScopedExploration ==
    Find_op /\ AllowListSet =>
        /\ \A i \in 1..Len(queue) : InScope(queue[i]) \/ IsRoot(queue[i])
        /\ LET open_fqns ==
                   {build_bigquery_fqn(t) :
                       t \in {u \in Tables : InScope(u) \/ IsRoot(u)}}
           IN  \A i \in 1..Len(calls) : calls[i].fqn \in open_fqns
        /\ Returned =>
              \A t \in Tables :
                  (/\ Known(t)
                   /\ Downstream(t) # {}
                   /\ \A dt \in Downstream(t) : ~InScope(dt)) => t \in LeafSet

\* A -> B -> C with C outside the allow-list: B is the leaf, C is never
\* looked up
C19_Witness ==
    /\ Find_op /\ Returned
    /\ table_ids = <<TA>>
    /\ allowed_project_ids = Some(<<P1>>)
    /\ DOMAIN api_down = {FqnA, FqnB}
    /\ api_down[FqnA] = <<FqnB>>
    /\ api_down[FqnB] = <<FqnC>>
    /\ LeafSet = {TB}
    /\ ~LookedUp(TC)

\* the tables in the order of their first dequeue: each is looked up
\* downstream right after it
DequeueOrder == CallsOf("downstream")

DequeuePosition(t) ==
    CHOOSE i \in 1..Len(DequeueOrder) :
        DequeueOrder[i].fqn = build_bigquery_fqn(t)

\* the length of the shortest path from the roots along filteredDownstream,
\* for every table that has one: the tables of frontier lie k steps away,
\* dist holds the tables found so far
RECURSIVE Distances(_, _, _)
Distances(frontier, k, dist) ==
    LET next == UNION {filteredDownstream(u) : u \in frontier} \ DOMAIN dist
    IN  IF next = {} THEN dist
        ELSE Distances(next, k + 1, dist @@ [t \in next |-> k + 1])

Distance == Distances(Range(table_ids), 0, [t \in Range(table_ids) |-> 0])

RootPosition(t) == CHOOSE i \in 1..Len(table_ids) :
                       /\ table_ids[i] = t
                       /\ \A j \in 1..(i - 1) : table_ids[j] # t

\* C20: the result of find_leaf_tables_from_roots is in dequeue order: of
\* two leaves the earlier one was dequeued first and lies no farther from
\* the roots along filtered downstream edges, and roots that are leaves
\* stand in root-list order.
C20_BfsOrder ==
    Find_op /\ Returned =>
        LET leaves == LeafIds(result[1])
            dequeued == [k \in 1..Len(leaves) |-> DequeuePosition(leaves[k])]
            dist == Distance
        IN  \A i, j \in 1..Len(leaves) :
                i < j =>
                    /\ dequeued[i] < dequeued[j]
                    /\ dist[leaves[i]] <= dist[leaves[j]]
                    /\ IsRoot(leaves[i]) /\ IsRoot(leaves[j])
                          => RootPosition(leaves[i]) < RootPosition(leaves[j])

\* roots A and C, A -> B: the root C is a leaf before B, found behind A
C20_Witness ==
    /\ Find_op /\ Returned
    /\ table_ids = <<TA, TC>>
    /\ allowed_project_ids = None
    /\ DOMAIN api_down = {FqnA, FqnB, FqnC}
    /\ api_down[FqnA] = <<FqnB>>
    /\ api_down[FqnB] = <<>>
    /\ api_down[FqnC] = <<>>
    /\ LeafIds(result[1]) = <<TC, TB>>

\* C21: get_leaf_tables explores no further than its input.  The downstream
\* lookups are, in order, one per element of the input list (all of them
\* once the call has returned); every lookup is for a table of the input
\* list; there are at most 2n lookups for n input tables; and at return the
\* upstream lookups are, in order, one per emitted leaf.
C21_NoMultiHop ==
    Get_op =>
        LET down == CallsOf("downstream")
            up == CallsOf("upstream")
            n == Len(table_ids)
        IN  /\ Len(down) <= n
            /\ \A i \in 1..Len(down) :
                   down[i].fqn = build_bigquery_fqn(table_ids[i])
            /\ \A i \in 1..Len(calls) :
                   \E k \in 1..n : calls[i].fqn = build_bigquery_fqn(table_ids[k])
            /\ Len(calls) <= 2 * n
            /\ Returned =>
                  /\ Len(down) = n
                  /\ Len(up) = Len(result[1])
                  /\ \A j \in 1..Len(up) :
                         up[j].fqn = build_bigquery_fqn(result[1][j].table_id)

\* get_leaf_tables([A, C]) where A feeds B and C is a leaf: three lookups,
\* none of them for B
C21_Witness ==
    /\ Get_op
    /\ Returned
    /\ table_ids = <<TA, TC>>
    /\ FqnA \in DOMAIN api_down
    /\ api_down[FqnA] = <<FqnB>>
    /\ LeafIds(result[1]) = <<TC>>
    /\ Len(calls) = 3
    /\ \A i \in 1..Len(calls) : calls[i].fqn # FqnB

\* C25: the list find_leaf_tables_from_roots returns never holds the same
\* table twice, and neither does the list of leaves collected so far, also
\* when the root list holds a table twice or a table was enqueued by several
\* of its upstream tables before its first dequeue.
C25_NoDuplicateLeaves ==
    Find_op =>
        /\ \A i, j \in 1..Len(leaf_tables) :
               leaf_tables[i].table_id = leaf_tables[j].table_id => i = j
        /\ Returned =>
               \A i, j \in 1..Len(result[1]) :
                   result[1][i].table_id = result[1][j].table_id => i = j

\* A and C both feed B: B is enqueued by A and again by C before its first
\* dequeue, and is reported once
C25_Witness ==
    /\ Find_op
    /\ Returned
    /\ table_ids = <<TA, TC>>
    /\ DOMAIN api_down = {FqnA, FqnB, FqnC}
    /\ api_down[FqnA] = <<FqnB>>
    /\ api_down[FqnC] = <<FqnB>>
    /\ api_down[FqnB] = <<>>
    /\ Len(CallsFor("downstream", FqnB)) = 1
    /\ LeafIds(result[1]) = <<TB>>

\* what the lookups of t return, no allow-list applied
DownstreamList(t) ==
    IF Known(t) THEN search_tables(api_down[build_bigquery_fqn(t)]) ELSE <<>>

UpstreamTotal(t) ==
    IF build_bigquery_fqn(t) \in DOMAIN api_up
    THEN Len(search_tables(api_up[build_bigquery_fqn(t)]))
    ELSE 0

\* the breadth-first traversal without an allow-list
RECURSIVE UnrestrictedFind(_, _, _)
UnrestrictedFind(q, seen, leaves) ==
    IF q = <<>> THEN leaves
    ELSE LET t == Head(q)
             fqn == build_bigquery_fqn(t)
             down == DownstreamList(t)
             now_seen == seen \cup {fqn}
         IN  IF fqn \in seen THEN UnrestrictedFind(Tail(q), seen, leaves)
             ELSE IF down = <<>>
             THEN UnrestrictedFind(Tail(q), now_seen,
                      Append(leaves, LeafTable(t, UpstreamTotal(t))))
             ELSE UnrestrictedFind(
                      Tail(q) \o SelectSeq(down,
                          LAMBDA dt : build_bigquery_fqn(dt) \notin now_seen),
                      now_seen, leaves)

\* the one-hop classification without an allow-list
UnrestrictedGet(tables) ==
    LET leaves == SelectSeq(tables, LAMBDA t : DownstreamList(t) = <<>>)
    IN  [i \in 1..Len(leaves) |-> LeafTable(leaves[i], UpstreamTotal(leaves[i]))]

\* the call was made without an allow-list, or with the empty list
NoAllowList == allowed_project_ids \in {None, Some(<<>>)}

\* C26: an empty allowed_project_ids list is equivalent to None for
\* get_leaf_tables and find_leaf_tables_from_roots: with either argument no
\* allow-list is in force, and the result is the result of the unrestricted
\* traversal of the same lineage graph.
C26_EmptyAllowListIsNone ==
    (Find_op \/ Get_op) /\ NoAllowList =>
        /\ allowed_projects = None
        /\ Returned =>
               result[1] = IF Find_op
                           THEN UnrestrictedFind(table_ids, {}, <<>>)
                           ELSE UnrestrictedGet(table_ids)

\* find_leaf_tables_from_roots([A], []) follows A into project p2
C26_Witness ==
    /\ Find_op
    /\ Returned
    /\ allowed_project_ids = Some(<<>>)
    /\ table_ids = <<TA>>
    /\ FqnA \in DOMAIN api_down
    /\ api_down[FqnA] = <<FqnC>>
    /\ LeafIds(result[1]) = <<TC>>

\* the call is over
CallOver == pc \in {"returned", "raised"}

\* the client of the call: none before it is obtained (and when the call
\* returns early or LineageClient() fails), open inside the with block,
\* closed once, and only, behind it
ClientDiscipline ==
    /\ closes \in {0, 1}
    /\ client = "closed" <=> closes = 1
    /\ CallOver => client # "open"
    /\ pc \notin {"idle", "returned", "raised"} => client = "open"

\* C27: a call of get_leaf_tables, find_leaf_tables_from_roots or
\* get_table_lineage that obtained a lineage client closes the client's
\* transport exactly once, and has done so when it has returned or raised,
\* also when an edge lookup failed part-way; every lookup is issued on the
\* open client, none after the close.
C27_ClientClosedOnce ==
    [][/\ ClientDiscipline'
       /\ calls' # calls => client = "open"
       /\ client = "closed" => client' = "closed" /\ closes' = closes]_vars

\* find_leaf_tables_from_roots raises at its third lookup: one close
C27_Witness ==
    /\ Find_op
    /\ Raised
    /\ Len(calls) = 3
    /\ calls[1].ok /\ calls[2].ok /\ ~calls[3].ok
    /\ client = "closed"
    /\ closes = 1

(***************************************************************************)
(* Properties of merge_results.                                            *)
(***************************************************************************)
MergeInput == merge_info \o merge_audit
Paths(rs) == {full_path(rs[i]) : i \in 1..Len(rs)}
CountsOf(rs, path) ==
    {rs[i].access_count : i \in {j \in 1..Len(rs) : full_path(rs[j]) = path}}
MaxOf(S) == CHOOSE n \in S : \A m \in S : m <= n
FirstIndex(rs, path) ==
    CHOOSE i \in 1..Len(rs) :
        /\ full_path(rs[i]) = path
        /\ \A j \in 1..(i - 1) : full_path(rs[j]) # path

\* C9: merge_results returns one record for every full_path of its inputs,
\* never two for the same full_path, and the record's access_count is the
\* largest access_count the inputs hold for that full_path.
C9_OnePerPathWithMax ==
    merge_pc = "done" =>
        /\ \A i, j \in 1..Len(sorted_results) :
              i # j => full_path(sorted_results[i]) # full_path(sorted_results[j])
        /\ Paths(sorted_results) = Paths(MergeInput)
        /\ \A i \in 1..Len(sorted_results) :
              sorted_results[i].access_count
                  = MaxOf(CountsOf(MergeInput, full_path(sorted_results[i])))

T1 == <<"t1">>
T2 == <<"t2">>
Rec(t, n, src) == TableAccessCount(<<"p">>, <<"d">>, t, n, src)

\* t1 is reported twice by one origin and once, highest, by the other
C9_Witness ==
    /\ merge_pc = "done"
    /\ merge_info = <<Rec(T1, 1, INFORMATION_SCHEMA), Rec(T1, 0, INFORMATION_SCHEMA)>>
    /\ merge_audit = <<Rec(T1, 2, AUDIT_LOG)>>
    /\ sorted_results = <<Rec(T1, 2, AUDIT_LOG)>>

\* C10: the output of merge_results is ordered by access_count,
\* non-increasing, and records of equal access_count stand in the order in
\* which their full_path first appeared in info_schema_results followed by
\* audit_log_results; replacing a key's record does not move the key.
C10_SortedStable ==
    merge_pc = "done" =>
        \A i, j \in 1..Len(sorted_results) :
            i < j =>
                /\ sorted_results[i].access_count >= sorted_results[j].access_count
                /\ sorted_results[i].access_count = sorted_results[j].access_count
                      => FirstIndex(MergeInput, full_path(sorted_results[i]))
                            < FirstIndex(MergeInput, full_path(sorted_results[j]))

\* t1 appears first, is replaced later by a record that ties with t2
C10_Witness ==
    /\ merge_pc = "done"
    /\ merge_info = <<Rec(T1, 1, INFORMATION_SCHEMA), Rec(T2, 2, INFORMATION_SCHEMA)>>
    /\ merge_audit = <<Rec(T1, 2, AUDIT_LOG)>>
    /\ sorted_results = <<Rec(T1, 2, AUDIT_LOG), Rec(T2, 2, INFORMATION_SCHEMA)>>

\* C11: merge_results is idempotent on its own output: for all input lists
\* x and y, merge_results(merge_results(x, y), []) is the same sequence of
\* records as merge_results(x, y).
C11_MergeIdempotent ==
    merge_pc = "remerged" => remerged = sorted_results

\* an output with a replaced record and a tie, merged once more
C11_Witness ==
    /\ merge_pc = "remerged"
    /\ merge_info = <<Rec(T1, 1, INFORMATION_SCHEMA), Rec(T2, 2, INFORMATION_SCHEMA)>>
    /\ merge_audit = <<Rec(T1, 2, AUDIT_LOG)>>
    /\ remerged = <<Rec(T1, 2, AUDIT_LOG), Rec(T2, 2, INFORMATION_SCHEMA)>>

\* the position in the input, read as the INFORMATION_SCHEMA list followed
\* by the Audit Log list, of the first record of path with its largest count
FirstMaxIndex(rs, path) ==
    LET mx == MaxOf(CountsOf(rs, path))
    IN  CHOOSE i \in 1..Len(rs) :
            /\ full_path(rs[i]) = path
            /\ rs[i].access_count = mx
            /\ \A j \in 1..(i - 1) :
                   ~(full_path(rs[j]) = path /\ rs[j].access_count = mx)

\* C22: an entry of merge_results is replaced only by a record of strictly
\* greater access_count: the record kept for a full_path is the first record
\* of the input, INFORMATION_SCHEMA list first and Audit Log list second,
\* that has the maximum count of that full_path.  When both origins report
\* the same count, the INFORMATION_SCHEMA record and its origin tag stay.
C22_FirstMaxKept ==
    merge_pc # "idle" =>
        \A k \in 1..Len(sorted_results) :
            sorted_results[k] =
                MergeInput[FirstMaxIndex(MergeInput,
                                         full_path(sorted_results[k]))]

\* both origins report t1 with the same count; the Audit Log reports t2 twice
C22_Witness ==
    /\ merge_pc = "done"
    /\ merge_info = <<Rec(T1, 1, INFORMATION_SCHEMA)>>
    /\ merge_audit = <<Rec(T2, 0, AUDIT_LOG), Rec(T1, 1, AUDIT_LOG),
                       Rec(T2, 2, AUDIT_LOG)>>
    /\ sorted_results = <<Rec(T2, 2, AUDIT_LOG), Rec(T1, 1, INFORMATION_SCHEMA)>>

(***************************************************************************)
(* Properties of apply_filters.                                            *)
(***************************************************************************)
\* the positions of the records that reach the threshold
Kept == {i \in 1..Len(filter_results) :
            filter_results[i].access_count >= filter_config.min_access_count}

\* the k-th of them, counted from the front
KthKept(k) == CHOOSE i \in Kept : Cardinality({j \in Kept : j <= i}) = k

\* C12: apply_filters returns exactly the records whose access_count is at
\* least min_access_count, each unchanged, in input order; with
\* min_access_count = 0 it returns every input record.
C12_FilterSubsequence ==
    filter_pc = "done" =>
        /\ Len(filtered) = Cardinality(Kept)
        /\ \A k \in 1..Len(filtered) : filtered[k] = filter_results[KthKept(k)]
        /\ filter_config.min_access_count = 0 => filtered = filter_results

\* a record at the threshold is kept, one below it dropped, order kept
C12_Witness ==
    /\ filter_pc = "done"
    /\ filter_config.min_access_count = 1
    /\ filter_results = <<Rec(T2, 2, INFORMATION_SCHEMA),
                          Rec(T1, 0, INFORMATION_SCHEMA),
                          Rec(T1, 1, INFORMATION_SCHEMA)>>
    /\ filtered = <<Rec(T2, 2, INFORMATION_SCHEMA),
                    Rec(T1, 1, INFORMATION_SCHEMA)>>

(***************************************************************************)
(* Properties of count_access.                                             *)
(***************************************************************************)
Origins == {INFORMATION_SCHEMA, AUDIT_LOG}
OtherOrigin(origin) ==
    IF origin = INFORMATION_SCHEMA THEN AUDIT_LOG ELSE INFORMATION_SCHEMA

\* the fetch calls made on one origin, in order
FetchesOf(origin) == SelectSeq(fetches, LAMBDA f : f.origin = origin)

\* the origin's fetch was called and raised
Failed(origin) ==
    \E i \in 1..Len(fetches) :
        fetches[i].origin = origin /\ ~fetches[i].outcome.ok

\* ... with an access-count error, one derived from DatasetLoaderError
LoaderFailed(origin) ==
    \E i \in 1..Len(fetches) :
        /\ fetches[i].origin = origin
        /\ ~fetches[i].outcome.ok
        /\ IsDatasetLoaderError(fetches[i].outcome.error[1])

\* the exception the origin's fetch raised
ErrorOf(origin) ==
    LET i == CHOOSE j \in 1..Len(fetches) :
                 fetches[j].origin = origin /\ ~fetches[j].outcome.ok
    IN  fetches[i].outcome.error[1]

\* the rows the origin's fetch returned, none when it was not called or raised
RowsOf(origin) ==
    IF \E i \in 1..Len(fetches) :
           fetches[i].origin = origin /\ fetches[i].outcome.ok
    THEN LET i == CHOOSE j \in 1..Len(fetches) :
                      fetches[j].origin = origin /\ fetches[j].outcome.ok
         IN  fetches[i].outcome.rows
    ELSE <<>>

\* both fetch blocks are behind the call
BlocksDone == count_pc \in {"assemble", "returned", "raised"}
CountReturned == count_pc = "returned"
CountRaised == count_pc = "raised"

\* the report's list of one origin
ListOf(r, origin) ==
    IF origin = INFORMATION_SCHEMA THEN r.info_schema_results
    ELSE r.audit_log_results

FailureWarnings(ws) == SelectSeq(ws, LAMBDA w : w.kind = "fetch_failed")
HasRetentionWarning(ws) == \E i \in 1..Len(ws) : ws[i].kind = "retention"

\* merge_results of one origin's rows and nothing from the other origin
MergedAlone(origin) ==
    IF origin = INFORMATION_SCHEMA
    THEN merge_results(RowsOf(origin), <<>>)
    ELSE merge_results(<<>>, RowsOf(origin))

SingleOrigin == source \in {INFO_SCHEMA, AUDIT_LOG_ONLY}

\* C14: in single-origin mode a failed fetch of the selected origin is the
\* last thing the call does: count_access raises the very error the fetch
\* raised, returns no report and records no warning for the failure.
C14_SingleOriginFailFast ==
    \A i \in 1..Len(fetches) :
        SingleOrigin /\ ~fetches[i].outcome.ok =>
            /\ i = Len(fetches)
            /\ CountRaised
            /\ count_error = fetches[i].outcome.error
            /\ report = None
            /\ FailureWarnings(warnings) = <<>>

\* the Audit Log alone is asked and the network fails
C14_Witness ==
    /\ CountRaised
    /\ source = AUDIT_LOG_ONLY
    /\ Len(fetches) = 1
    /\ count_error = Some(FetchError("NetworkError", AUDIT_LOG))
    /\ HasRetentionWarning(warnings)

EffectiveWindow(filter_cfg) ==
    IF filter_cfg.start_date # None /\ filter_cfg.end_date # None
    THEN filter_cfg.end_date[1] - filter_cfg.start_date[1]
    ELSE filter_cfg.days

\* C17: a report returned by count_access holds the retention warning if
\* and only if the effective window is longer than the 180 days of
\* INFORMATION_SCHEMA retention, the effective window being the explicit
\* start_date..end_date range when both are set and days otherwise.
C17_RetentionWarning ==
    CountReturned =>
        (HasRetentionWarning(report[1].warnings)
            <=> EffectiveWindow(config) > INFO_SCHEMA_RETENTION_DAYS)

\* the records of a list that reach the threshold, in their order
AtLeast(rs, n) == SelectSeq(rs, LAMBDA r : r.access_count >= n)

\* the three lists of a report
ReportLists(r) ==
    {r.info_schema_results, r.audit_log_results, r.merged_results}

ReportedCounts(rs, path) ==
    {rs[k].access_count : k \in {j \in 1..Len(rs) : full_path(rs[j]) = path}}

\* C28: in every report count_access returns, a full_path occurs in
\* merged_results if and only if it occurs in one of the report's two
\* per-origin lists, and its merged access_count is the largest
\* access_count it has in those lists.
C28_MergedCoversOrigins ==
    CountReturned =>
        LET r == report[1]
            both == r.info_schema_results \o r.audit_log_results
        IN  /\ Paths(r.merged_results) = Paths(both)
            /\ \A k \in 1..Len(r.merged_results) :
                   r.merged_results[k].access_count
                       = MaxOf(ReportedCounts(both,
                                              full_path(r.merged_results[k])))

\* t1 is reported by the Audit Log only, t2 by INFORMATION_SCHEMA only
C28_Witness ==
    /\ CountReturned
    /\ report[1].info_schema_results = <<Rec(T2, 1, INFORMATION_SCHEMA)>>
    /\ report[1].audit_log_results = <<Rec(T1, 2, AUDIT_LOG)>>
    /\ report[1].merged_results
           = <<Rec(T1, 2, AUDIT_LOG), Rec(T2, 1, INFORMATION_SCHEMA)>>

\* the adapter of an origin and the single-origin mode that asks for it
AdapterOf(origin) ==
    IF origin = INFORMATION_SCHEMA THEN info_schema_adapter
    ELSE audit_log_adapter

ModeOf(origin) ==
    IF origin = INFORMATION_SCHEMA THEN INFO_SCHEMA ELSE AUDIT_LOG_ONLY

\* the call is past the fetch block of the origin
BlockDone(origin) ==
    IF origin = INFORMATION_SCHEMA
    THEN count_pc \in {"audit_log", "assemble", "returned", "raised"}
    ELSE BlocksDone

\* C29: when the mode selects an origin whose adapter is None, count_access
\* skips the origin silently: no fetch is made for it, the call does not
\* raise because of it, no failure warning names it, and the report's list
\* of that origin is empty.  In a single-origin mode the call then returns
\* (it never raises) a report whose three lists are empty.
C29_MissingAdapterSkipped ==
    \A origin \in Origins :
        count_pc # "idle" /\ source \in {ModeOf(origin), BOTH}
            /\ AdapterOf(origin) = "none" =>
            /\ FetchesOf(origin) = <<>>
            /\ \A k \in 1..Len(warnings) :
                   warnings[k].kind = "fetch_failed"
                       => warnings[k].origin # origin
            /\ BlockDone(origin) /\ ~Failed(OtherOrigin(origin))
                   => ~CountRaised /\ count_error = None
            /\ CountReturned =>
                   /\ ListOf(report[1], origin) = <<>>
                   /\ \A k \in 1..Len(report[1].warnings) :
                          report[1].warnings[k].kind = "fetch_failed"
                              => report[1].warnings[k].origin # origin
            /\ source = ModeOf(origin) =>
                   /\ ~CountRaised
                   /\ fetches = <<>>
                   /\ CountReturned =>
                          /\ \A rs \in ReportLists(report[1]) : rs = <<>>
                          /\ FailureWarnings(report[1].warnings) = <<>>

\* AUDIT_LOG mode without an Audit Log adapter, while an INFORMATION_SCHEMA
\* adapter is configured: an empty report
C29_Witness ==
    /\ CountReturned
    /\ source = AUDIT_LOG_ONLY
    /\ audit_log_adapter = "none"
    /\ info_schema_adapter = "adapter"
    /\ fetches = <<>>
    /\ report[1].merged_results = <<>>
    /\ report[1].warnings = <<>>

(***************************************************************************)
(* Properties of AuditLogAdapter.                                          *)
(***************************************************************************)
AuditDone == audit_pc \in {"returned", "raised"}

\* the rate-limit failures Cloud Logging has reported to the call
RateLimits ==
    Cardinality({i \in 1..Len(api_failures) :
                    api_failures[i] = "ResourceExhausted"})

\* the exception the call raised
AuditRaised(type) ==
    /\ audit_pc = "raised"
    /\ audit_outcome # None
    /\ ~audit_outcome.ok
    /\ audit_outcome.error[1].type = type

\* retries, delays and failures of a call, in every state of it
RetryPolicy ==
    \* every retry slept first, and every sleep was followed by a listing
    /\ Len(sleeps) <= max_retries
    /\ list_calls <= max_retries + 1
    /\ audit_pc \notin {"idle", "list"} => list_calls = Len(sleeps) + 1
    /\ audit_pc = "list" => list_calls = Len(sleeps)
    \* the first delay is retry_delay, each later one twice the one before
    /\ sleeps # <<>> => sleeps[1] = retry_delay
    /\ \A k \in 1..(Len(sleeps) - 1) : sleeps[k + 1] = 2 * sleeps[k]
    \* a rate limit is retried max_retries times, the next one raises
    /\ RateLimits <= max_retries => Len(sleeps) = RateLimits
    /\ RateLimits > max_retries =>
          /\ RateLimits = max_retries + 1
          /\ list_calls = max_retries + 1
          /\ AuditRaised("NetworkError")
    \* a permission or service failure is the last thing the call sees
    /\ \A i \in 1..Len(api_failures) :
          /\ api_failures[i] = "PermissionDenied" =>
                i = Len(api_failures) /\ AuditRaised("PermissionDeniedError")
          /\ api_failures[i] = "ServiceUnavailable" =>
                i = Len(api_failures) /\ AuditRaised("NetworkError")

\* C24: on a rate limit (ResourceExhausted) AuditLogAdapter retries the
\* listing after a delay that starts at retry_delay and doubles with each
\* retry; it retries at most max_retries times, max_retries + 1 list_entries
\* calls in all, and then raises NetworkError; a permission or
\* service-unavailable failure is not retried and raises
\* PermissionDeniedError or NetworkError at once; and the call always ends.
C24_RetryPolicy ==
    /\ RetryPolicy
    /\ [][RetryPolicy']_vars
    /\ <>AuditDone

\* max_retries = 2: two retries after 1 s and 2 s, the third rate limit
\* raises
C24_Witness ==
    /\ AuditRaised("NetworkError")
    /\ max_retries = 2
    /\ retry_delay = 1
    /\ api_failures = <<"ResourceExhausted", "ResourceExhausted",
                        "ResourceExhausted">>
    /\ sleeps = <<1, 2>>
    /\ list_calls = 3

\* the number of entries of the log that name the table of a record
EntriesOf(r) ==
    Cardinality({i \in 1..Len(log_entries) :
        /\ log_entries[i].resource_name # None
        /\ log_entries[i].resource_name[1]
               = ResourceName(r.project_id, r.dataset_id, r.table_id)})

\* C30: fetch_table_access counts each entry of the listing once: the
\* access_count it returns for a table is the number of log entries that
\* name the table, also when a rate limit interrupted a listing that had
\* already yielded entries and the listing was started again.
C30_EachEntryCountedOnce ==
    audit_pc = "returned" =>
        \A k \in 1..Len(audit_outcome.rows) :
            audit_outcome.rows[k].access_count
                = EntriesOf(audit_outcome.rows[k])

(***************************************************************************)
(* Properties of _parse_bigquery_fqn.                                      *)
(***************************************************************************)
\* the FQN starts with "bigquery:"
HasBigqueryPrefix(fqn) == fqn # <<>> /\ fqn[1] = "bigquery:"

\* what follows "bigquery:" and, if present, "sharded:"
TablePath(fqn) ==
    IF Len(fqn) >= 2 /\ fqn[2] = "sharded:"
    THEN SubSeq(fqn, 3, Len(fqn))
    ELSE SubSeq(fqn, 2, Len(fqn))

\* the path is three dot-separated segments: it holds two dots
ThreeSegments(path) ==
    Cardinality({k \in 1..Len(path) : path[k] = Dot}) = 2

\* a segment of the path is empty: the path is empty, starts or ends with a
\* dot, or holds two dots in a row
EmptySegment(path) ==
    \/ path = <<>>
    \/ path[1] = Dot
    \/ path[Len(path)] = Dot
    \/ \E k \in 1..(Len(path) - 1) : path[k] = Dot /\ path[k + 1] = Dot

\* C18: a TableId that _parse_bigquery_fqn returns has three non-empty
\* segments: the parser returns None for any input that lacks the bigquery:
\* prefix, does not split into exactly three dot-separated segments, or has
\* an empty project, dataset or table segment.
C18_ParsedSegmentsNonEmpty ==
    parse_pc = "done" =>
        /\ parsed # None =>
              /\ parsed[1].project_id # <<>>
              /\ parsed[1].dataset_id # <<>>
              /\ parsed[1].table_id # <<>>
        /\ (\/ ~HasBigqueryPrefix(parse_fqn)
            \/ ~ThreeSegments(TablePath(parse_fqn))
            \/ EmptySegment(TablePath(parse_fqn))) => parsed = None

=============================================================================
